---- MODULE Spec2Model ----
(***************************************************************************)
(* Model of ogg-batch-download-convert.py: the driver loop of __main__,    *)
(* the retrying subpage fetcher get_file_page_response, and the pipeline   *)
(* download_and_convert_ogg.  Strings are sequences of one-character       *)
(* strings, so that split, endswith, unquote and join are computed on      *)
(* characters as the Python code computes them.                            *)
(***************************************************************************)
EXTENDS Integers, Sequences, FiniteSets, TLC

VARIABLES
    pc,                 \* position of the script
    exit_status,        \* process exit status once the script has ended
    main_page_anchors,  \* hrefs of the <a href> elements of the listing page
    file_links,         \* line 138
    link_index,         \* line 144 (1-based position in file_links)
    file_link,          \* line 144/149: the current, absolute subpage URL
    attempt,            \* loop variable of the running retry loop
    page,               \* file_page_soup: the elements of the fetched subpage
    ogg_url,            \* line 159: resolved audio URL, or None
    output_directory,   \* line 124
    local_filename_ogg, \* line 61
    local_filename_mp3, \* lines 66/68
    handle_as_mp3,      \* line 60
    skip_file,          \* second component of the pipeline's return value
    output_file,        \* first component of the pipeline's return value
    fs,                 \* regular files on disk: path -> content
    dirs,               \* directories on disk
    notes,              \* lines of output_notes.txt
    item,               \* what has happened for the current item (observation)
    done_items          \* per processed link, the item record it ended with

vars == <<pc, exit_status, main_page_anchors, file_links, link_index, file_link,
          attempt, page, ogg_url, output_directory, local_filename_ogg,
          local_filename_mp3, handle_as_mp3, skip_file, output_file, fs, dirs,
          notes, item, done_items>>

None == "None"

-----------------------------------------------------------------------------
(* Bounds of the model *)

MaxLinks == 3
ChunksPerFile == 2
MaxUrlPieces == 3
MaxDirPieces == 2
MaxElems == 3

-----------------------------------------------------------------------------
(* Strings *)

S_ogg == <<".", "o", "g", "g">>
S_mp3 == <<".", "m", "p", "3">>
S_http == <<"h", "t", "t", "p">>
S_File == <<"F", "i", "l", "e", ":">>
S_sep == <<"/">>

\* s.startswith(p)
StartsWith(s, p) ==
    /\ Len(s) >= Len(p)
    /\ SubSeq(s, 1, Len(p)) = p

\* s.endswith(p)
EndsWith(s, p) ==
    /\ Len(s) >= Len(p)
    /\ SubSeq(s, Len(s) - Len(p) + 1, Len(s)) = p

\* The positions at which p occurs in s
Occurrences(s, p) ==
    {i \in 1..(Len(s) - Len(p) + 1) : SubSeq(s, i, i + Len(p) - 1) = p}

\* p in s
Contains(s, p) == Occurrences(s, p) # {}

Min(S) == CHOOSE x \in S : \A y \in S : x <= y
Max(S) == CHOOSE x \in S : \A y \in S : x >= y

\* s.split(p, 1)[0]: the part of s before the first occurrence of p (the
\* string is bound to t once, so that a nested argument is evaluated once)
SplitFirstHead(s, p) ==
    CHOOSE head \in {IF Contains(t, p)
                       THEN SubSeq(t, 1, Min(Occurrences(t, p)) - 1)
                       ELSE t : t \in {s}} : TRUE

\* s.split('/')[-1]: the part of s after the last '/'
LastSegment(s) ==
    IF Contains(s, S_sep)
      THEN SubSeq(s, Max(Occurrences(s, S_sep)) + 1, Len(s))
      ELSE s

\* The percent-escapes of the model's alphabet
EscapeTable(h) ==
    CASE h = <<"2", "F">> -> "/"
      [] h = <<"2", "0">> -> " "
      [] h = <<"2", "E">> -> "."
      [] OTHER -> None

\* urllib.parse.unquote: every %XX is replaced by the character it encodes
RECURSIVE unquote(_)
unquote(s) ==
    IF s = <<>> THEN <<>>
    ELSE IF /\ s[1] = "%"
            /\ Len(s) >= 3
            /\ EscapeTable(SubSeq(s, 2, 3)) # None
      THEN <<EscapeTable(SubSeq(s, 2, 3))>> \o unquote(SubSeq(s, 4, Len(s)))
      ELSE <<s[1]>> \o unquote(Tail(s))

\* os.path.join(folder, filename) on a POSIX system
PathJoin(folder, filename) ==
    IF StartsWith(filename, S_sep) THEN filename
    ELSE IF folder = <<>> \/ EndsWith(folder, S_sep) THEN folder \o filename
    ELSE folder \o S_sep \o filename

\* os.path.basename(p)
Basename(p) == LastSegment(p)

-----------------------------------------------------------------------------
(* download_and_convert_ogg, lines 56-71: the local file names *)

\* line 57 (the last segment is bound to seg once, then unquoted)
Filename(url) ==
    CHOOSE name \in {unquote(seg) : seg \in {LastSegment(url)}} : TRUE

\* line 61
LocalFilenameOgg(url, folder) ==
    SplitFirstHead(PathJoin(folder, Filename(url)), S_ogg) \o S_ogg

\* line 62
HandleAsMp3(url) == EndsWith(Filename(url), S_mp3)

\* lines 66 and 68
LocalFilenameMp3(url, folder) ==
    IF HandleAsMp3(url)
      THEN SplitFirstHead(PathJoin(folder, Filename(url)), S_ogg) \o S_mp3
      ELSE SplitFirstHead(LocalFilenameOgg(url, folder), S_ogg) \o S_mp3

-----------------------------------------------------------------------------
(* URLs and HTML documents *)

NoUrl == <<>>   \* None, or an empty attribute value: both are falsy in Python

\* scheme://authority of an absolute URL
Origin(base) ==
    LET slashes == Occurrences(base, S_sep)
        third == {i \in slashes : Cardinality({j \in slashes : j < i}) = 2}
    IN  IF third = {} THEN base ELSE SubSeq(base, 1, Min(third) - 1)

\* requests.compat.urljoin(base, ref) for the references of the model: an
\* absolute http URL, a rooted path, or a plain relative path
urljoin(base, ref) ==
    IF ref = <<>> THEN base
    ELSE IF StartsWith(ref, S_http \o <<":">>) THEN ref
    ELSE IF StartsWith(ref, S_sep) THEN Origin(base) \o ref
    ELSE IF Contains(base, S_sep)
      THEN SubSeq(base, 1, Max(Occurrences(base, S_sep))) \o ref
      ELSE ref

\* An element of a parsed document, in document order.  An audio element
\* carries the src values of its nested source elements (<<>> when the
\* attribute is missing or empty); an anchor carries its href.
Audio(srcs) == [tag |-> "audio", sources |-> srcs, href |-> <<>>]
Anchor(href) == [tag |-> "a", sources |-> <<>>, href |-> href]

\* soup.find(tag): position of the first element with that tag, 0 if none
FindFirst(doc, tag) ==
    IF \E i \in 1..Len(doc) : doc[i].tag = tag
      THEN Min({i \in 1..Len(doc) : doc[i].tag = tag})
      ELSE 0

\* lines 158-163: the src of the first source of the first audio element
AudioSourceUrl(doc, link) ==
    LET a == FindFirst(doc, "audio")
    IN  IF a # 0 /\ doc[a].sources # <<>> /\ doc[a].sources[1] # <<>>
          THEN urljoin(link, doc[a].sources[1])
          ELSE NoUrl

\* lines 167-170: the first anchor whose href ends with ".ogg"
AnchorOggUrl(doc, link) ==
    LET hits == {i \in 1..Len(doc) :
                    doc[i].tag = "a" /\ EndsWith(doc[i].href, S_ogg)}
    IN  IF hits # {} THEN urljoin(link, doc[Min(hits)].href) ELSE NoUrl

\* the anchor rule tried before the audio rule
ResolveAudioUrl_AnchorFirst(doc, link) ==
    IF AnchorOggUrl(doc, link) # NoUrl
      THEN AnchorOggUrl(doc, link)
      ELSE AudioSourceUrl(doc, link)

\* lines 157-170
ResolveAudioUrl(doc, link) ==
    IF AudioSourceUrl(doc, link) # NoUrl
      THEN AudioSourceUrl(doc, link)
      ELSE AnchorOggUrl(doc, link)

\* line 138: hrefs that contain "File:" and ".ogg", in document order
RECURSIVE FilterFileLinks(_)
FilterFileLinks(hrefs) ==
    IF hrefs = <<>> THEN <<>>
    ELSE IF Contains(hrefs[1], S_File) /\ Contains(hrefs[1], S_ogg)
      THEN <<hrefs[1]>> \o FilterFileLinks(Tail(hrefs))
      ELSE FilterFileLinks(Tail(hrefs))

\* lines 148-149
AbsoluteLink(base, link) ==
    IF ~StartsWith(link, S_http) THEN urljoin(base, link) ELSE link

SeqsUpTo(S, n) == UNION {[1..k -> S] : k \in 0..n}

-----------------------------------------------------------------------------
(* The site the script is run against, and the disk it is run on *)

\* sys.argv[1]: "http://s/L"
main_page_url == S_http \o <<":", "/", "/", "s", "/", "L">>

\* sys.argv[2]: "d", or "o.oggs"
OutputDirs == {<<"d">>, <<"o">> \o S_ogg \o <<"s">>}

Href_A == S_sep \o S_File \o <<"a">> \o S_ogg                 \* "/File:a.ogg"
Href_B == S_http \o <<":", "/", "/", "s", "/">> \o S_File \o <<"b">> \o S_ogg
                                                              \* "http://s/File:b.ogg"
Href_C == S_sep \o S_File \o <<"c">> \o S_ogg                 \* "/File:c.ogg"
Href_X == <<"/", "C", "a", "t", ":", "X">>                    \* "/Cat:X"

\* The hrefs a listing page is made of
ListingHrefs == {Href_A, Href_B, Href_C, Href_X}

\* The document served at a subpage URL
SubpageContent(url) ==
    CASE url = urljoin(main_page_url, Href_A) ->
           \* an audio element without a source, and a plain .ogg anchor
           <<Audio(<<>>), Anchor(<<"n", ".", "t", "x", "t">>),
             Anchor(<<"/", "m", "/", "a">> \o S_ogg)>>
      [] url = Href_B ->
           \* a transcoded source, as media wikis serve them: "/t/a.ogg.mp3"
           <<Audio(<< <<"/", "t", "/", "a">> \o S_ogg \o S_mp3 >>),
             Anchor(<<"/", "m", "/", "b">> \o S_ogg)>>
      [] OTHER ->
           <<Anchor(<<"n", ".", "t", "x", "t">>)>>

\* The chunks r.iter_content yields for a resource
Payload == [i \in 1..ChunksPerFile |-> i]

\* The content of a file: the chunks it holds, whether the transcoder wrote
\* it, and whether tags have been saved into it
File(data, enc, tagged) == [data |-> data, mp3 |-> enc, tagged |-> tagged]

\* A file left behind by an earlier run
OldFile == File(<<0>>, TRUE, TRUE)

\* The audio URL of the first subpage: "http://s/m/a.ogg"
AudioUrl_A == S_http \o <<":", "/", "/", "s", "/", "m", "/", "a">> \o S_ogg

\* Files that may be on disk when the script starts: what an earlier run
\* with the same output directory wrote for the first subpage
PreexistingPaths(folder) ==
    {LocalFilenameMp3(AudioUrl_A, folder), LocalFilenameOgg(AudioUrl_A, folder)}

\* What output_notes.txt may hold when the script starts: nothing, or the
\* line an earlier run wrote for an already-mp3 resource
PreexistingNotes(folder) ==
    {<<>>, <<[label |-> "Was already mp3",
             text |-> LocalFilenameOgg(AudioUrl_A, folder)]>>}

\* os.path.isfile(path)
IsFile(files, path) == path \in DOMAIN files

\* os.path.exists(path)
Exists(files, folders, path) == path \in DOMAIN files \/ path \in folders

\* the disk after path has been written with content
WriteFile(files, path, content) ==
    [p \in DOMAIN files \cup {path} |-> IF p = path THEN content ELSE files[p]]

\* the removal left out
RemoveFile_Kept(files, path) == files

\* the disk after os.remove(path)
RemoveFile(files, path) == [p \in DOMAIN files \ {path} |-> files[p]]

\* a copy in place of the rename: the source stays
RenameFile_Copy(files, src, dst) == WriteFile(files, dst, files[src])

\* the disk after os.rename(src, dst)
RenameFile(files, src, dst) ==
    [p \in (DOMAIN files \ {src}) \cup {dst} |->
        IF p = dst THEN files[src] ELSE files[p]]

\* one line of output_notes.txt
Note(label, text) == [label |-> label, text |-> text]

-----------------------------------------------------------------------------
(* Observation of the current item *)

NewItem ==
    [gets |-> 0,            \* GET requests issued by the running retry loop
     fails |-> 0,           \* failed attempts of the running retry loop
     waits |-> 0,           \* time.sleep(1) calls of the running retry loop
     leftover |-> FALSE,    \* a failed attempt of the running loop wrote chunks
     called |-> FALSE,      \* download_and_convert_ogg was entered
     existed |-> FALSE,     \* the mp3 path was a file at the existence check
     dl_started |-> FALSE,  \* a download attempt was started
     dl_done |-> FALSE,     \* a download attempt completed
     transcode |-> "no",    \* "no", "ok", "fail"
     renamed |-> FALSE,     \* os.rename was called
     removed |-> FALSE,     \* os.remove was called
     tag |-> "no",          \* "no", "ok", "fail"
     noted |-> 0,           \* note lines appended for this item
     outcome |-> "pending"]

\* the counters of a retry loop once the loop has been left
LoopLeft(it) ==
    [it EXCEPT !.gets = 0, !.fails = 0, !.waits = 0, !.leftover = FALSE]

-----------------------------------------------------------------------------
(* Program constants *)

NumberAttemptsFetch == 10       \* line 27
NumberAttemptsDownload == 10    \* line 80

\* exit_status: the script has not ended, ended with status 0, or ended
\* with a non-zero status
Running == "running"
ExitOk == "0"
ExitError == "nonzero"

-----------------------------------------------------------------------------
(* The state after the command line has been read, lines 116-133 *)

Init ==
    /\ pc = "start"
    /\ exit_status = Running
    /\ main_page_anchors = <<>>
    /\ file_links = <<>>
    /\ link_index = 0
    /\ file_link = <<>>
    /\ attempt = 0
    /\ page = <<>>
    /\ ogg_url = NoUrl
    /\ output_directory \in OutputDirs
    /\ local_filename_ogg = <<>>
    /\ local_filename_mp3 = <<>>
    /\ handle_as_mp3 = FALSE
    /\ skip_file = FALSE
    /\ output_file = <<>>
    /\ \E present \in SUBSET PreexistingPaths(output_directory) :
         /\ fs = [p \in present |-> OldFile]
         /\ dirs = IF present = {} THEN {} ELSE {output_directory}
    /\ notes \in PreexistingNotes(output_directory)
    /\ item = NewItem
    /\ done_items = <<>>

-----------------------------------------------------------------------------
(* __main__, lines 135-155: the listing page and the per-item loop *)

callVars == <<local_filename_ogg, local_filename_mp3, handle_as_mp3,
              skip_file, output_file>>
diskVars == <<fs, dirs, notes>>
listVars == <<main_page_anchors, file_links, output_directory>>

\* lines 136-141: one GET of the listing page, its anchors filtered
FetchListing ==
    /\ pc = "start"
    /\ \E hrefs \in SeqsUpTo(ListingHrefs, MaxLinks) :
         /\ main_page_anchors' = hrefs
         /\ file_links' = FilterFileLinks(hrefs)
    /\ link_index' = 1
    /\ pc' = "loop"
    /\ UNCHANGED <<exit_status, file_link, attempt, page, ogg_url,
                   output_directory, callVars, diskVars, item, done_items>>

\* line 136 raising: the listing request is not retried and not caught
FetchListingRaises ==
    /\ pc = "start"
    /\ pc' = "crashed"
    /\ exit_status' = ExitError
    /\ UNCHANGED <<listVars, link_index, file_link, attempt, page, ogg_url,
                   callVars, diskVars, item, done_items>>

\* lines 144-152: the next link is taken and made absolute
LoopNext ==
    /\ pc = "loop"
    /\ link_index <= Len(file_links)
    /\ file_link' = AbsoluteLink(main_page_url, file_links[link_index])
    /\ item' = NewItem
    /\ attempt' = 0
    /\ pc' = "fetch"
    /\ UNCHANGED <<exit_status, listVars, link_index, page, ogg_url, callVars,
                   diskVars, done_items>>

\* line 144: the links are exhausted and the script ends
LoopEnd ==
    /\ pc = "loop"
    /\ link_index > Len(file_links)
    /\ pc' = "finished"
    /\ exit_status' = ExitOk
    /\ UNCHANGED <<listVars, link_index, file_link, attempt, page, ogg_url,
                   callVars, diskVars, item, done_items>>

\* the item taken again instead of the next one
EndItem_Retry(it) ==
    /\ item' = it
    /\ UNCHANGED <<done_items, link_index>>
    /\ pc' = "loop"

\* the item is over: line 144 advances
EndItem(it) ==
    /\ item' = it
    /\ done_items' = Append(done_items, [link |-> file_link, item |-> it])
    /\ link_index' = link_index + 1
    /\ pc' = "loop"

\* exhaustion handled as a skip of the item instead of an exit
SysExit_SkipItem(it) ==
    /\ EndItem(it)
    /\ UNCHANGED exit_status

\* sys.exit(message): the script stops with status 1
SysExit(it) ==
    /\ item' = it
    /\ pc' = "fatal"
    /\ exit_status' = ExitError
    /\ UNCHANGED <<link_index, done_items>>

-----------------------------------------------------------------------------
(* get_file_page_response, lines 26-36, and its caller's check, line 153 *)

\* lines 30-35: the GET raises; the loop sleeps and goes on, and returns
\* None after the last attempt, which line 153 turns into sys.exit
GetFilePageRaises ==
    /\ pc = "fetch"
    /\ attempt < NumberAttemptsFetch
    /\ attempt' = attempt + 1
    /\ LET it == [item EXCEPT !.gets = @ + 1, !.fails = @ + 1, !.waits = @ + 1]
       IN  IF attempt + 1 < NumberAttemptsFetch
             THEN /\ item' = it
                  /\ UNCHANGED <<pc, exit_status, link_index, done_items>>
             ELSE SysExit([it EXCEPT !.outcome = "fetch_exhausted"])
    /\ UNCHANGED <<listVars, file_link, page, ogg_url, callVars, diskVars>>

\* lines 30-31 and 153-155: the GET returns a response with a success
\* status, which is truthy; the document is parsed
GetFilePageOk ==
    /\ pc = "fetch"
    /\ attempt < NumberAttemptsFetch
    /\ page' = SubpageContent(file_link)
    /\ item' = [item EXCEPT !.gets = @ + 1]
    /\ pc' = "resolve"
    /\ UNCHANGED <<exit_status, listVars, link_index, file_link, attempt,
                   ogg_url, callVars, diskVars, done_items>>

\* lines 30-31 and 153-154: the GET returns a response with an error status
\* (400 and above); such a Response is falsy, so line 153 exits
GetFilePageErrorStatus ==
    /\ pc = "fetch"
    /\ attempt < NumberAttemptsFetch
    /\ SysExit([item EXCEPT !.gets = @ + 1, !.outcome = "fetch_error_status"])
    /\ UNCHANGED <<listVars, file_link, attempt, page, ogg_url, callVars,
                   diskVars>>

-----------------------------------------------------------------------------
(* __main__, lines 157-175 and 196-197: resolution of the audio URL *)

\* lines 157-174: a URL was found; download_and_convert_ogg is called
ResolveFound ==
    /\ pc = "resolve"
    /\ ResolveAudioUrl(page, file_link) # NoUrl
    /\ ogg_url' = ResolveAudioUrl(page, file_link)
    /\ attempt' = 0
    /\ item' = LoopLeft(item)
    /\ pc' = "process"
    /\ UNCHANGED <<exit_status, listVars, link_index, file_link, page,
                   callVars, diskVars, done_items>>

\* the miss written to output_notes.txt as well
NoLinkFound_Noted ==
    /\ pc = "resolve"
    /\ ResolveAudioUrl(page, file_link) = NoUrl
    /\ ogg_url' = NoUrl
    /\ attempt' = 0
    /\ notes' = Append(notes, Note("No link", file_link))
    /\ EndItem([LoopLeft(item) EXCEPT !.outcome = "no_link"])
    /\ UNCHANGED <<exit_status, listVars, file_link, page, callVars, fs, dirs>>

\* lines 196-197: no URL was found; a message is printed
NoLinkFound ==
    /\ pc = "resolve"
    /\ ResolveAudioUrl(page, file_link) = NoUrl
    /\ ogg_url' = NoUrl
    /\ attempt' = 0
    /\ EndItem([LoopLeft(item) EXCEPT !.outcome = "no_link"])
    /\ UNCHANGED <<exit_status, listVars, file_link, page, callVars, diskVars>>

-----------------------------------------------------------------------------
(* download_and_convert_ogg, lines 53-113 *)

\* the skip decision taken on the ogg name instead of the mp3 name
AlreadyConverted_OggChecked(files, mp3) ==
    IsFile(files, SplitFirstHead(mp3, S_mp3) \o S_ogg)

\* line 73: the skip decision
AlreadyConverted(files, mp3) == IsFile(files, mp3)

\* ProcessEntry with the note written only once the call is known not to be
\* skipped
ProcessEntry_NoteAfterCheck ==
    /\ pc = "process"
    /\ LET ogg == LocalFilenameOgg(ogg_url, output_directory)
           mp3 == LocalFilenameMp3(ogg_url, output_directory)
           is_mp3 == HandleAsMp3(ogg_url)
       IN  /\ dirs' = IF Exists(fs, dirs, output_directory)
                        THEN dirs ELSE dirs \cup {output_directory}
           /\ local_filename_ogg' = ogg
           /\ local_filename_mp3' = mp3
           /\ handle_as_mp3' = is_mp3
           /\ notes' = IF is_mp3 /\ ~AlreadyConverted(fs, mp3)
                         THEN Append(notes, Note("Was already mp3", ogg))
                         ELSE notes
           /\ IF AlreadyConverted(fs, mp3)
                THEN /\ output_file' = mp3
                     /\ skip_file' = TRUE
                     /\ pc' = "returned"
                ELSE /\ pc' = "download"
                     /\ UNCHANGED <<output_file, skip_file>>
           /\ item' = [item EXCEPT !.called = TRUE,
                                   !.existed = IsFile(fs, mp3),
                                   !.noted = IF is_mp3 THEN @ + 1 ELSE @]
    /\ attempt' = 0
    /\ UNCHANGED <<exit_status, listVars, link_index, file_link, page, ogg_url,
                   fs, done_items>>

\* lines 53-77: the output directory is made, the names are derived, an
\* already-mp3 resource is noted, and an existing output ends the call
ProcessEntry ==
    /\ pc = "process"
    /\ LET ogg == LocalFilenameOgg(ogg_url, output_directory)
           mp3 == LocalFilenameMp3(ogg_url, output_directory)
           is_mp3 == HandleAsMp3(ogg_url)
       IN  /\ dirs' = IF Exists(fs, dirs, output_directory)
                        THEN dirs ELSE dirs \cup {output_directory}
           /\ local_filename_ogg' = ogg
           /\ local_filename_mp3' = mp3
           /\ handle_as_mp3' = is_mp3
           /\ notes' = IF is_mp3
                         THEN Append(notes, Note("Was already mp3", ogg))
                         ELSE notes
           /\ IF AlreadyConverted(fs, mp3)
                THEN /\ output_file' = mp3
                     /\ skip_file' = TRUE
                     /\ pc' = "returned"
                ELSE /\ pc' = "download"
                     /\ UNCHANGED <<output_file, skip_file>>
           /\ item' = [item EXCEPT !.called = TRUE,
                                   !.existed = IsFile(fs, mp3),
                                   !.noted = IF is_mp3 THEN @ + 1 ELSE @]
    /\ attempt' = 0
    /\ UNCHANGED <<exit_status, listVars, link_index, file_link, page, ogg_url,
                   fs, done_items>>

\* The ways one download attempt can fail: the GET raises, raise_for_status
\* raises, or the stream breaks after k chunks have been written
DownloadFailures ==
    {[kind |-> "connection", written |-> 0], [kind |-> "status", written |-> 0]}
      \cup {[kind |-> "stream", written |-> k] : k \in 0..ChunksPerFile}

\* the file opened for appending: the chunks go after what path already holds
StreamToFile_Append(files, path, chunks) ==
    WriteFile(files, path,
              File((IF IsFile(files, path) THEN files[path].data ELSE <<>>)
                     \o chunks, FALSE, FALSE))

\* line 85: open(path, 'wb') truncates; lines 86-87 write the chunks received
StreamToFile(files, path, chunks) ==
    WriteFile(files, path, File(chunks, FALSE, FALSE))

\* the remaining-attempts test off by one
RetriesRemain_OffByOne(n) == (NumberAttemptsDownload - n - 1) > 1

\* lines 91-95: whether a failed attempt is followed by another one
RetriesRemain(n) == (NumberAttemptsDownload - n - 1) > 0

\* DownloadFails with the exhausted loop falling through to the conversion
DownloadFails_FallsThrough ==
    /\ pc = "download"
    /\ attempt < NumberAttemptsDownload
    /\ \E f \in DownloadFailures :
         /\ fs' = IF f.kind = "stream"
                    THEN StreamToFile(fs, local_filename_ogg,
                                      SubSeq(Payload, 1, f.written))
                    ELSE fs
         /\ LET it == [item EXCEPT !.dl_started = TRUE, !.gets = @ + 1,
                                   !.fails = @ + 1,
                                   !.leftover = @ \/ f.written > 0]
            IN  IF RetriesRemain(attempt)
                  THEN /\ item' = [it EXCEPT !.waits = @ + 1]
                       /\ attempt' = attempt + 1
                       /\ UNCHANGED <<pc, exit_status, link_index, done_items>>
                  ELSE /\ item' = it
                       /\ pc' = "downloaded"
                       /\ UNCHANGED <<attempt, exit_status, link_index,
                                      done_items>>
    /\ UNCHANGED <<listVars, file_link, page, ogg_url, callVars, dirs, notes>>

\* lines 81-95: a download attempt fails; it is retried after a sleep, or the
\* script exits when no attempt remains
DownloadFails ==
    /\ pc = "download"
    /\ attempt < NumberAttemptsDownload
    /\ \E f \in DownloadFailures :
         /\ fs' = IF f.kind = "stream"
                    THEN StreamToFile(fs, local_filename_ogg,
                                      SubSeq(Payload, 1, f.written))
                    ELSE fs
         /\ LET it == [item EXCEPT !.dl_started = TRUE, !.gets = @ + 1,
                                   !.fails = @ + 1,
                                   !.leftover = @ \/ f.written > 0]
            IN  IF RetriesRemain(attempt)
                  THEN /\ item' = [it EXCEPT !.waits = @ + 1]
                       /\ attempt' = attempt + 1
                       /\ UNCHANGED <<pc, exit_status, link_index, done_items>>
                  ELSE /\ SysExit([it EXCEPT !.outcome = "download_exhausted"])
                       /\ UNCHANGED attempt
    /\ UNCHANGED <<listVars, file_link, page, ogg_url, callVars, dirs, notes>>

\* lines 81-88: a download attempt completes and the loop is left
DownloadOk ==
    /\ pc = "download"
    /\ attempt < NumberAttemptsDownload
    /\ fs' = StreamToFile(fs, local_filename_ogg, Payload)
    /\ item' = [item EXCEPT !.dl_started = TRUE, !.dl_done = TRUE,
                            !.gets = @ + 1]
    /\ pc' = "downloaded"
    /\ UNCHANGED <<exit_status, listVars, link_index, file_link, attempt, page,
                   ogg_url, callVars, dirs, notes, done_items>>

\* lines 98-100: an already-mp3 download is renamed, not converted
RenameMp3 ==
    /\ pc = "downloaded"
    /\ handle_as_mp3
    /\ fs' = RenameFile(fs, local_filename_ogg, local_filename_mp3)
    /\ item' = [LoopLeft(item) EXCEPT !.renamed = TRUE]
    /\ output_file' = local_filename_mp3
    /\ skip_file' = FALSE
    /\ attempt' = 0
    /\ pc' = "returned"
    /\ UNCHANGED <<exit_status, listVars, link_index, file_link, page, ogg_url,
                   local_filename_ogg, local_filename_mp3, handle_as_mp3, dirs,
                   notes, done_items>>

\* lines 102-107 and 113: the transcoder succeeds and the ogg file is removed
ConvertOk ==
    /\ pc = "downloaded"
    /\ ~handle_as_mp3
    /\ fs' = RemoveFile(
               WriteFile(fs, local_filename_mp3,
                         File(fs[local_filename_ogg].data, TRUE, FALSE)),
               local_filename_ogg)
    /\ item' = [LoopLeft(item) EXCEPT !.transcode = "ok", !.removed = TRUE]
    /\ output_file' = local_filename_mp3
    /\ skip_file' = FALSE
    /\ attempt' = 0
    /\ pc' = "returned"
    /\ UNCHANGED <<exit_status, listVars, link_index, file_link, page, ogg_url,
                   local_filename_ogg, local_filename_mp3, handle_as_mp3, dirs,
                   notes, done_items>>

\* the downloaded file cleaned up when the transcoder raises
ConvertFails_Cleanup ==
    /\ pc = "downloaded"
    /\ ~handle_as_mp3
    /\ \E created \in BOOLEAN :
         fs' = RemoveFile(
                 IF created
                   THEN WriteFile(fs, local_filename_mp3,
                                  File(<<>>, TRUE, FALSE))
                   ELSE fs,
                 local_filename_ogg)
    /\ notes' = Append(notes, Note("Conversion fail", local_filename_ogg))
    /\ item' = [LoopLeft(item) EXCEPT !.transcode = "fail", !.noted = @ + 1]
    /\ output_file' = local_filename_mp3
    /\ skip_file' = FALSE
    /\ attempt' = 0
    /\ pc' = "returned"
    /\ UNCHANGED <<exit_status, listVars, link_index, file_link, page, ogg_url,
                   local_filename_ogg, local_filename_mp3, handle_as_mp3, dirs,
                   done_items>>

\* lines 102-113: the transcoder raises, before or after it has created its
\* output file; the failure is noted
ConvertFails ==
    /\ pc = "downloaded"
    /\ ~handle_as_mp3
    /\ \E created \in BOOLEAN :
         fs' = IF created
                 THEN WriteFile(fs, local_filename_mp3, File(<<>>, TRUE, FALSE))
                 ELSE fs
    /\ notes' = Append(notes, Note("Conversion fail", local_filename_ogg))
    /\ item' = [LoopLeft(item) EXCEPT !.transcode = "fail", !.noted = @ + 1]
    /\ output_file' = local_filename_mp3
    /\ skip_file' = FALSE
    /\ attempt' = 0
    /\ pc' = "returned"
    /\ UNCHANGED <<exit_status, listVars, link_index, file_link, page, ogg_url,
                   local_filename_ogg, local_filename_mp3, handle_as_mp3, dirs,
                   done_items>>

-----------------------------------------------------------------------------
(* __main__, lines 175-195: metadata *)

\* line 177: a skipped item is not tagged
SkipTagging ==
    /\ pc = "returned"
    /\ skip_file
    /\ EndItem([item EXCEPT !.outcome = "skipped"])
    /\ UNCHANGED <<exit_status, listVars, file_link, attempt, page, ogg_url,
                   callVars, diskVars>>

\* line 179: the output file is missing, nothing is tagged
TagAbsent ==
    /\ pc = "returned"
    /\ ~skip_file
    /\ ~IsFile(fs, output_file)
    /\ EndItem([item EXCEPT !.outcome = "completed"])
    /\ UNCHANGED <<exit_status, listVars, file_link, attempt, page, ogg_url,
                   callVars, diskVars>>

\* lines 179-190: the tags are written and saved
TagOk ==
    /\ pc = "returned"
    /\ ~skip_file
    /\ IsFile(fs, output_file)
    /\ fs' = [fs EXCEPT ![output_file].tagged = TRUE]
    /\ EndItem([item EXCEPT !.tag = "ok", !.outcome = "completed"])
    /\ UNCHANGED <<exit_status, listVars, file_link, attempt, page, ogg_url,
                   callVars, dirs, notes>>

\* the existence check of line 179 left out
TagFails_Unchecked ==
    /\ pc = "returned"
    /\ ~skip_file
    /\ notes' = Append(notes, Note("Failed to write metadata",
                                   Basename(output_file)))
    /\ EndItem([item EXCEPT !.tag = "fail", !.noted = @ + 1,
                            !.outcome = "completed"])
    /\ UNCHANGED <<exit_status, listVars, file_link, attempt, page, ogg_url,
                   callVars, fs, dirs>>

\* lines 179-194: loading, setting or saving the tags raises; it is noted
TagFails ==
    /\ pc = "returned"
    /\ ~skip_file
    /\ IsFile(fs, output_file)
    /\ notes' = Append(notes, Note("Failed to write metadata",
                                   Basename(output_file)))
    /\ EndItem([item EXCEPT !.tag = "fail", !.noted = @ + 1,
                            !.outcome = "completed"])
    /\ UNCHANGED <<exit_status, listVars, file_link, attempt, page, ogg_url,
                   callVars, fs, dirs>>

-----------------------------------------------------------------------------

Next ==
    \/ FetchListing
    \/ FetchListingRaises
    \/ LoopNext
    \/ LoopEnd
    \/ GetFilePageRaises
    \/ GetFilePageOk
    \/ GetFilePageErrorStatus
    \/ ResolveFound
    \/ NoLinkFound
    \/ ProcessEntry
    \/ DownloadFails
    \/ DownloadOk
    \/ RenameMp3
    \/ ConvertOk
    \/ ConvertFails
    \/ SkipTagging
    \/ TagAbsent
    \/ TagOk
    \/ TagFails

Spec == Init /\ [][Next]_vars

\* The script is one sequential process: as long as a statement is left to
\* execute and every external call returns or raises, it executes it
FairSpec == Spec /\ WF_vars(Next)

-----------------------------------------------------------------------------
(* The file names of download_and_convert_ogg over many directories and URLs *)

\* the concatenation of a sequence of strings
RECURSIVE Concat(_)
Concat(ss) == IF ss = <<>> THEN <<>> ELSE ss[1] \o Concat(Tail(ss))

UrlPieces == {<<"a">>, S_sep, S_ogg, S_mp3, <<"%", "2", "F">>, <<"%", "2", "0">>}
DirPieces == {<<"d">>, S_sep, S_ogg}

\* "http://s/" followed by up to MaxUrlPieces pieces
UrlInputs ==
    {S_http \o <<":", "/", "/", "s", "/">> \o Concat(ps) :
        ps \in SeqsUpTo(UrlPieces, MaxUrlPieces)}

\* 1 to MaxDirPieces pieces (makedirs raises on an empty name)
DirInputs == {Concat(ps) : ps \in SeqsUpTo(DirPieces, MaxDirPieces)} \ {<<>>}

PathInit ==
    /\ pc = "process"
    /\ exit_status = Running
    /\ main_page_anchors = <<>>
    /\ file_links = <<>>
    /\ link_index = 1
    /\ file_link = <<>>
    /\ attempt = 0
    /\ page = <<>>
    /\ ogg_url \in UrlInputs
    /\ output_directory \in DirInputs
    /\ local_filename_ogg = <<>>
    /\ local_filename_mp3 = <<>>
    /\ handle_as_mp3 = FALSE
    /\ skip_file = FALSE
    /\ output_file = <<>>
    /\ fs = <<>>
    /\ dirs = {}
    /\ notes = <<>>
    /\ item = NewItem
    /\ done_items = <<>>

PathNext == ProcessEntry

PathSpec == PathInit /\ [][PathNext]_vars

-----------------------------------------------------------------------------
(* The resolution rule of lines 157-170 over many documents *)

T_ogg == <<"t">> \o S_ogg
Elements ==
    {Audio(<<>>),                       \* <audio></audio>
     Audio(<< <<>> >>),                 \* <audio><source></audio>
     Audio(<<T_ogg>>),                  \* <audio><source src="t.ogg"></audio>
     Audio(<< <<>>, T_ogg >>),          \* <audio><source><source src="t.ogg">
     Audio(<< <<"/", "u">> \o S_mp3 >>),
     Anchor(<<"x">> \o S_ogg),
     Anchor(<<"/", "m", "/", "y">> \o S_ogg),
     Anchor(<<"n", ".", "t", "x", "t">>),
     Anchor(<<>>)}

\* "http://s/w/File:a.ogg"
SubpageUrl ==
    S_http \o <<":", "/", "/", "s", "/", "w", "/">> \o S_File \o <<"a">> \o S_ogg

ResolveInit ==
    /\ pc = "resolve"
    /\ exit_status = Running
    /\ main_page_anchors = <<SubpageUrl>>
    /\ file_links = <<SubpageUrl>>
    /\ link_index = 1
    /\ file_link = SubpageUrl
    /\ attempt = 0
    /\ page \in SeqsUpTo(Elements, MaxElems)
    /\ ogg_url = NoUrl
    /\ output_directory \in OutputDirs
    /\ local_filename_ogg = <<>>
    /\ local_filename_mp3 = <<>>
    /\ handle_as_mp3 = FALSE
    /\ skip_file = FALSE
    /\ output_file = <<>>
    /\ fs = <<>>
    /\ dirs = {}
    /\ notes = <<>>
    /\ item = [NewItem EXCEPT !.gets = 1]
    /\ done_items = <<>>

ResolveNext == ResolveFound \/ NoLinkFound

ResolveSpec == ResolveInit /\ [][ResolveNext]_vars

-----------------------------------------------------------------------------
(* Properties *)

\* the current item is over and the next has not begun
ItemOver == pc \in {"loop", "finished"} /\ done_items # <<>>

\* C1: when the derived mp3 path is a file at the existence check of a call
\* of download_and_convert_ogg, the call returns (mp3 path, skipped = TRUE)
\* at once: no GET is issued, no download attempt is started, and neither
\* the transcoder nor a rename or removal is invoked.
C1_SkipWithoutNetwork ==
    (item.called /\ item.existed) =>
        /\ pc \in {"returned", "loop", "finished"}
        /\ skip_file
        /\ output_file = local_filename_mp3
        /\ item.gets = 0
        /\ ~item.dl_started
        /\ item.transcode = "no"
        /\ ~item.renamed
        /\ ~item.removed

C1_Witness ==
    /\ pc = "returned"
    /\ item.existed
    /\ skip_file
    /\ IsFile(fs, local_filename_mp3)

\* C2: when all 10 attempts of the download of an item have failed, the
\* script is in its fatal state with a non-zero exit status: the item is not
\* recorded as finished, nothing was transcoded, renamed or tagged for it,
\* and no further step of the script is possible.
C2_DownloadExhaustionIsFatal ==
    (item.dl_started /\ item.fails = 10) =>
        /\ pc = "fatal"
        /\ exit_status = ExitError
        /\ Len(done_items) = link_index - 1
        /\ item.transcode = "no"
        /\ ~item.renamed
        /\ item.tag = "no"
        /\ ~ENABLED Next

C2_Witness ==
    /\ pc = "fatal"
    /\ item.dl_started
    /\ item.fails = 10
    /\ link_index < Len(file_links)

\* C3: the run stops before every discovered link has been processed only
\* if a subpage fetch or a download has failed on all 10 of its attempts.
C3_StopsOnlyOnExhaustion ==
    (pc = "fatal" /\ link_index <= Len(file_links)) => item.fails = 10

\* C4: in a call whose URL-decoded file name ends with ".mp3" the transcoder
\* is never invoked, and once the download has completed and the call has
\* returned, the downloaded file has been renamed: the call returned
\* (mp3 path, skipped = FALSE), the mp3 path holds the payload and the ogg
\* path is no file.
C4_Mp3IsRenamedNotConverted ==
    (item.called /\ EndsWith(unquote(LastSegment(ogg_url)), S_mp3)) =>
        /\ item.transcode = "no"
        /\ (item.dl_done /\ pc \in {"returned", "loop", "finished"}) =>
              /\ item.renamed
              /\ ~skip_file
              /\ output_file = local_filename_mp3
              /\ IsFile(fs, local_filename_mp3)
              /\ fs[local_filename_mp3].data = Payload
              /\ ~IsFile(fs, local_filename_ogg)

C4_Witness ==
    /\ pc = "returned"
    /\ EndsWith(unquote(LastSegment(ogg_url)), S_mp3)
    /\ item.dl_done
    /\ item.renamed

\* C5: when a call for a URL ending in ".ogg" returns after the download and
\* the transcoding have both succeeded, the ogg path is no file, the mp3
\* path is a file, and the call returned (mp3 path, skipped = FALSE).
C5_OggRemovedAfterConversion ==
    (/\ pc = "returned"
     /\ EndsWith(ogg_url, S_ogg)
     /\ item.dl_done
     /\ item.transcode = "ok") =>
        /\ ~IsFile(fs, local_filename_ogg)
        /\ IsFile(fs, local_filename_mp3)
        /\ output_file = local_filename_mp3
        /\ ~skip_file

C5_Witness ==
    /\ pc = "returned"
    /\ EndsWith(ogg_url, S_ogg)
    /\ item.dl_done
    /\ item.transcode = "ok"

\* C6: a step that attempts tagging, or that appends a "Failed to write
\* metadata" note, is taken only when the pipeline returned skipped = FALSE
\* and the output file is a file on disk at that moment.
C6_TaggingIsGuarded ==
    [][(\/ item'.tag # item.tag /\ item'.tag # "no"
        \/ /\ Len(notes') > Len(notes)
           /\ notes'[Len(notes')].label = "Failed to write metadata")
       => (pc = "returned" /\ ~skip_file /\ IsFile(fs, output_file))]_vars

C6_Witness ==
    /\ ItemOver
    /\ item.tag = "fail"
    /\ item.transcode = "fail"

\* C7: a retry loop issues at most 10 GETs per call; while it runs every
\* attempt so far has failed, and when it is left normally exactly the last
\* attempt succeeded; exhaustion is reported only after exactly 10 failures.
C7_BoundedRetries ==
    /\ item.gets <= 10
    /\ pc \in {"fetch", "download"} => item.gets = item.fails
    /\ pc \in {"resolve", "downloaded"} => item.gets = item.fails + 1
    /\ item.outcome \in {"fetch_exhausted", "download_exhausted"} =>
          (item.fails = 10 /\ item.gets = 10)
    /\ (pc = "fatal" /\ item.outcome # "fetch_error_status") =>
          item.outcome \in {"fetch_exhausted", "download_exhausted"}

C7_Witness ==
    /\ pc = "downloaded"
    /\ item.gets = 10
    /\ item.fails = 9

\* the src of the first source element nested in the first audio element of
\* a document, <<>> when there is none or it is empty
FirstSourceSrc(doc) ==
    LET audios == {i \in 1..Len(doc) : doc[i].tag = "audio"}
    IN  IF audios = {} \/ doc[Min(audios)].sources = <<>>
          THEN <<>>
          ELSE doc[Min(audios)].sources[1]

\* the first non-empty src among all the source elements nested in the
\* first audio element of a document, <<>> when there is none
AnySourceSrc(doc) ==
    LET audios == {i \in 1..Len(doc) : doc[i].tag = "audio"}
        srcs == IF audios = {} THEN <<>> ELSE doc[Min(audios)].sources
        usable == {j \in 1..Len(srcs) : srcs[j] # <<>>}
    IN  IF usable = {} THEN <<>> ELSE srcs[Min(usable)]

\* the positions of the anchors of a document whose href ends with ".ogg"
OggAnchors(doc) ==
    {i \in 1..Len(doc) : doc[i].tag = "a" /\ EndsWith(doc[i].href, S_ogg)}

\* what resolution yields when the audio rule works on the src given
ResolvedAs(src) ==
    /\ src # <<>> => (pc = "process" /\ ogg_url = urljoin(file_link, src))
    /\ (src = <<>> /\ OggAnchors(page) # {}) =>
          /\ pc = "process"
          /\ ogg_url = urljoin(file_link, page[Min(OggAnchors(page))].href)
    /\ (src = <<>> /\ OggAnchors(page) = {}) =>
          (pc = "loop" /\ ogg_url = NoUrl)

\* C8 as stated: resolution yields the src of a source of the first audio
\* element whenever that element has a source with a non-empty src, whatever
\* anchors the page holds; otherwise the first anchor ending with ".ogg";
\* otherwise nothing.
C8_AnySourceWins == pc # "resolve" => ResolvedAs(AnySourceSrc(page))

\* C8 as amended: resolution yields the src of the first source element of
\* the first audio element whenever that src is non-empty, whatever anchors
\* the page holds; otherwise the first anchor in document order whose href
\* ends with ".ogg"; otherwise nothing.  Both are joined against the
\* subpage URL.
C8_FirstSourceWins == pc # "resolve" => ResolvedAs(FirstSourceSrc(page))

C8_Witness ==
    /\ pc = "process"
    /\ FirstSourceSrc(page) # <<>>
    /\ OggAnchors(page) # {}
    /\ ogg_url = urljoin(file_link, FirstSourceSrc(page))

\* C9: a step taken from a subpage that holds neither an audio source nor an
\* anchor ending with ".ogg" changes no file, no directory and no note, calls
\* nothing of the pipeline or the tagger, and leaves the script at the head
\* of the loop with the next link.
C9_MissSkipsItem ==
    [][(/\ pc = "resolve"
        /\ \A i \in 1..Len(page) :
              /\ \A j \in 1..Len(page[i].sources) : page[i].sources[j] = <<>>
              /\ ~(page[i].tag = "a" /\ EndsWith(page[i].href, S_ogg)))
       => (/\ fs' = fs
           /\ dirs' = dirs
           /\ notes' = notes
           /\ exit_status' = Running
           /\ ~item'.called
           /\ ~item'.dl_started
           /\ item'.transcode = "no"
           /\ item'.tag = "no"
           /\ pc' = "loop"
           /\ link_index' = link_index + 1)]_vars

C9_Witness ==
    /\ pc = "fetch"
    /\ link_index = 2
    /\ done_items[1].item.outcome = "no_link"

\* what C10 expects: outputDir/<base><ext>
InOutputDir(folder, base, ext) ==
    (IF EndsWith(folder, S_sep) THEN folder ELSE folder \o S_sep) \o base \o ext

\* C10: with base the part of the URL-decoded last path segment before its
\* first ".ogg", the call computes the ogg path outputDir/<base>.ogg and the
\* mp3 path outputDir/<base>.mp3, whatever the directory and the URL are.
C10_PathsInsideOutputDir ==
    pc # "process" =>
        LET base == SplitFirstHead(unquote(LastSegment(ogg_url)), S_ogg)
        IN  /\ local_filename_ogg = InOutputDir(output_directory, base, S_ogg)
            /\ local_filename_mp3 = InOutputDir(output_directory, base, S_mp3)

\* the positions of the note lines appended for the current item
ItemNotes == (Len(notes) - item.noted + 1)..Len(notes)

\* C11: once the transcoding of a downloaded item has failed, exactly one
\* "Conversion fail: <ogg path>" line has been appended for the item, the
\* downloaded file is still at the ogg path with the whole payload, the call
\* has returned (mp3 path, skipped = FALSE), and the script has not exited:
\* it is at the driver's tagging block or has moved on to the next link.
C11_ConversionFailureIsNoted ==
    item.transcode = "fail" =>
        /\ pc \in {"returned", "loop", "finished"}
        /\ exit_status # ExitError
        /\ Cardinality({i \in ItemNotes : notes[i].label = "Conversion fail"}) = 1
        /\ \A i \in ItemNotes :
              notes[i].label = "Conversion fail" =>
                  notes[i].text = local_filename_ogg
        /\ IsFile(fs, local_filename_ogg)
        /\ fs[local_filename_ogg].data = Payload
        /\ output_file = local_filename_mp3
        /\ ~skip_file
        /\ pc = "loop" => link_index = Len(done_items) + 1

C11_Witness ==
    /\ pc = "fetch"
    /\ link_index = 2
    /\ done_items[1].item.transcode = "fail"
    /\ IsFile(fs, local_filename_ogg)

\* C12: when the same subpage, and so the same audio resource, is reached by
\* more than one link of the listing, the resource is downloaded at most
\* once in the run: every later occurrence for which the pipeline is called
\* returns skipped = TRUE without a download attempt.
C12_DownloadedAtMostOnce ==
    \A i, j \in DOMAIN done_items :
        (/\ i < j
         /\ done_items[i].link = done_items[j].link
         /\ done_items[i].item.called) =>
            /\ done_items[j].item.outcome = "skipped"
            /\ ~done_items[j].item.dl_started

\* C14: in both retry loops (subpage fetch and resource download) a wait of
\* one time unit follows every failed attempt except the final one: while
\* retries remain the loop has waited once per failure, and a loop that
\* failed in all of its attempts has waited exactly one time less than it
\* has attempted.
C14_NoWaitAfterFinalAttempt ==
    /\ item.outcome = "fetch_exhausted" =>
           /\ item.fails = NumberAttemptsFetch
           /\ item.waits = NumberAttemptsFetch - 1
    /\ item.outcome = "download_exhausted" =>
           /\ item.fails = NumberAttemptsDownload
           /\ item.waits = NumberAttemptsDownload - 1
    /\ item.outcome \notin {"fetch_exhausted", "download_exhausted"} =>
           item.waits = item.fails

\* C15: a call of download_and_convert_ogg whose URL-decoded filename ends
\* with ".mp3" appends exactly one "Was already mp3: <ogg path>" line, in
\* the step that also takes the existence check and so whether or not the
\* call is then skipped; a call for any other filename appends nothing, and
\* no other step of the program writes such a line.
C15_Mp3CallIsNoted ==
    [][ /\ pc = "process" =>
              /\ pc' \in {"returned", "download"}
              /\ (pc' = "returned") = IsFile(fs, local_filename_mp3')
              /\ IF EndsWith(Filename(ogg_url), S_mp3)
                   THEN notes' = Append(notes, Note("Was already mp3",
                                                    local_filename_ogg'))
                   ELSE notes' = notes
        /\ pc # "process" =>
              \A i \in (Len(notes) + 1)..Len(notes') :
                  notes'[i].label # "Was already mp3"
      ]_vars

\* The second run over an already-downloaded .mp3 item: the call is skipped
\* and the note file holds one line of each run
C15_Witness ==
    /\ pc = "returned"
    /\ skip_file
    /\ handle_as_mp3
    /\ notes = <<Note("Was already mp3", local_filename_ogg),
                 Note("Was already mp3", local_filename_ogg)>>

\* C16: within one call the rename and the transcoder act only on a
\* completed download of that call: the step that renames or transcodes
\* starts after the loop was left by a successful attempt, with all chunks
\* in the ogg file; a failed attempt is followed only by another attempt or
\* by the exit; and a file appears at the mp3 path only in such a step, with
\* the whole payload when the rename or the transcoding succeeded.
C16_OnlyCompleteDownloadsAreConverted ==
    [][ /\ (\/ item'.renamed /\ ~item.renamed
            \/ item'.transcode # "no" /\ item.transcode = "no"
            \/ ~IsFile(fs, local_filename_mp3') /\ IsFile(fs', local_filename_mp3')) =>
              /\ pc = "downloaded"
              /\ item.dl_done
              /\ IsFile(fs, local_filename_ogg)
              /\ fs[local_filename_ogg].data = Payload
              /\ (item'.renamed \/ item'.transcode = "ok") =>
                    /\ IsFile(fs', local_filename_mp3)
                    /\ fs'[local_filename_mp3].data = Payload
        /\ (pc = "download" /\ item'.fails > item.fails) =>
              /\ pc' \in {"download", "fatal"}
              /\ ~item'.dl_done
              /\ item'.transcode = "no"
              /\ ~item'.renamed
              /\ IsFile(fs', local_filename_mp3) = IsFile(fs, local_filename_mp3)
      ]_vars

\* A run that has invoked the transcoder on one completed download and
\* renamed another
C16_Witness ==
    /\ pc = "returned"
    /\ item.dl_done
    /\ item.renamed
    /\ fs[local_filename_mp3].data = Payload
    /\ \E k \in DOMAIN done_items :
          done_items[k].item.dl_done /\ done_items[k].item.transcode # "no"

\* C17: every download attempt truncates the ogg file before it writes, so
\* when the loop is left by a successful attempt the ogg file holds exactly
\* the chunks of that attempt, in order, whatever earlier attempts or an
\* earlier run had written to it.
C17_SuccessfulAttemptOverwrites ==
    pc = "downloaded" =>
        /\ IsFile(fs, local_filename_ogg)
        /\ fs[local_filename_ogg] = File(Payload, FALSE, FALSE)

\* A download that succeeded after an attempt that broke off with chunks
\* already written
C17_Witness ==
    /\ pc = "downloaded"
    /\ item.dl_done
    /\ item.fails > 0
    /\ item.leftover
    /\ fs[local_filename_ogg].data = Payload

\* C18: once the links of the listing are known, the run ends: it reaches
\* the finished state, with every link processed exactly once and in listing
\* order, or the fatal exit, with the links before the current one processed
\* once and in order.  No item is taken twice: every return to the loop head
\* records the item and advances to the next link.  No retry loop makes more
\* than 10 attempts.
C18_EveryRunTerminates ==
    /\ (pc = "loop") ~> (pc \in {"finished", "fatal"})
    /\ [](pc \in {"finished", "fatal"} =>
            /\ ~ENABLED Next
            /\ Len(done_items) = link_index - 1
            /\ \A k \in DOMAIN done_items :
                  done_items[k].link = AbsoluteLink(main_page_url, file_links[k])
            /\ (pc = "finished") = (Len(done_items) = Len(file_links)))
    /\ [][(pc # "loop" /\ pc' = "loop" /\ pc # "start") =>
            /\ link_index' = link_index + 1
            /\ done_items' = Append(done_items, [link |-> file_link, item |-> item'])
            /\ link_index <= Len(file_links)]_vars
    /\ [][link_index' >= link_index /\ (pc = "loop" => link_index' = link_index)]_vars
    /\ [](/\ attempt <= NumberAttemptsFetch
          /\ attempt <= NumberAttemptsDownload
          /\ item.gets <= NumberAttemptsFetch
          /\ item.gets <= NumberAttemptsDownload)

\* A finished run over three links, the same one twice among them
C18_Witness ==
    /\ pc = "finished"
    /\ exit_status = ExitOk
    /\ Len(done_items) = 3
    /\ \E i, j \in DOMAIN done_items : i < j /\ done_items[i].link = done_items[j].link

====
